---- MODULE Spec2Model ----
(***************************************************************************)
(* VerseAi: the three turn implementations of the repository.              *)
(*   prog = "main"   : src/main.py                       (ChatBot)         *)
(*   prog = "old"    : src/workingModel/mainBotPrototypeOld.py (ChatBot)   *)
(*   prog = "locali" : src/locali.py                     (LocalI)          *)
(* One behaviour runs one of the programs; Init chooses which.             *)
(***************************************************************************)
EXTENDS Integers, Sequences, FiniteSets, TLC

VARIABLES
    prog,           \* which program this behaviour runs
    tty,            \* sys.stderr.isatty() (main.py, LoadingSpinner.__enter__)
    history,        \* ChatBot.history: sequence of [role, content]
    pc,             \* position of the main thread / of the generator
    events,         \* the threading.Event objects created so far, one per turn
    running,        \* LoadingSpinner.running
    spin,           \* the spinner thread: "none" | "alive" | "done"
    response,       \* main.py: value returned by _get_ollama_response; <<>> is None
    current_tokens, \* main.py: the running count of _trim_history
    maxTokens,      \* main.py: self.MAX_CONTEXT_TOKENS
    turns,          \* number of turns started
    pre,            \* history (conversation) when the current turn started
    user_input,     \* the prompt of the current turn
    outcome,        \* how the last turn ended
    gen,            \* old: the generation threads started so far, one per turn
    result,         \* old: the result dict of each turn's closure
    conversation,   \* locali: Conversation's message list
    session,        \* locali: self._session is set
    http_response,  \* locali: the response of session.post: "none" | "open" | "released"
    stream,         \* locali: the lines of the response body, in wire order
    pos,            \* locali: number of lines read from the body
    delivered,      \* locali: fragments yielded to the caller, in order
    raised          \* locali: an exception reached the caller of generate_text

vars == <<prog, tty, history, pc, events, running, spin, response, current_tokens,
          maxTokens, turns, pre, user_input, outcome, gen, result,
          conversation, session, http_response, stream, pos, delivered, raised>>

chatVars   == <<gen, result>>
localVars  == <<conversation, session, http_response, stream, pos, delivered, raised>>
trimVars   == <<response, current_tokens, maxTokens>>

-----------------------------------------------------------------------------
(* Bounds of the model *)
MaxTurns == 2
MaxLines == 3

(* Program constants *)
MAX_CONTEXT_TOKENS == 12000
MAX_HISTORY == 50

-----------------------------------------------------------------------------
(* Messages and texts.  A text is named; Words gives len(text.split()). *)

SYSTEM_GENERAL == "sys_general"
SYSTEM_CYBER   == "sys_cyber"
SYSTEM_OLD     == "sys_old"

UserTexts  == {"hi", "essay"}
ReplyTexts == {"", "ok", "tome"}

Words(c) ==
    CASE c = SYSTEM_GENERAL -> 20
      [] c = SYSTEM_CYBER   -> 20
      [] c = SYSTEM_OLD     -> 15
      [] c = ""             -> 0
      [] c = "hi"           -> 1
      [] c = "ok"           -> 1
      [] c = "essay"        -> 7000
      [] c = "tome"         -> 13000
      [] OTHER              -> 1

Msg(role, content) == [role |-> role, content |-> content]

None == <<>>
Some(x) == <<x>>

RECURSIVE SumWords(_)
SumWords(h) == IF h = <<>> THEN 0 ELSE Words(Head(h).content) + SumWords(Tail(h))

(* list.pop(1) *)
Pop0(h) == Tail(h)

Pop1(h) == <<Head(h)>> \o SubSeq(h, 3, Len(h))

CurCancel == events # <<>> /\ events[Len(events)]

SetCancel(ev) == [ev EXCEPT ![Len(ev)] = TRUE]

InitHistory(swicth_mode) ==
    <<Msg("system", IF swicth_mode THEN SYSTEM_CYBER ELSE SYSTEM_GENERAL)>>

-----------------------------------------------------------------------------
(* The spinner thread, LoadingSpinner._spin: same loop in both ChatBots *)

Keys == {"q", "x"}

KeyPress(ev, key) == IF key = "q" THEN SetCancel(ev) ELSE ev

Spin ==
    /\ prog \in {"main", "old"}
    /\ spin = "alive"
    /\ IF running /\ ~CurCancel
       THEN /\ \E key \in Keys : events' = KeyPress(events, key)
            /\ spin' = spin
       ELSE /\ spin' = "done"
            /\ events' = events
    /\ UNCHANGED <<prog, tty, history, pc, running, turns, pre, user_input, outcome>>
    /\ UNCHANGED <<chatVars, localVars, trimVars>>

-----------------------------------------------------------------------------
(* src/main.py *)

MainSubmit ==
    /\ prog = "main" /\ pc = "idle" /\ turns < MaxTurns
    /\ \E u \in UserTexts :
        /\ history' = Append(history, Msg("user", u))
        /\ user_input' = u
    /\ pre' = history
    /\ events' = Append(events, FALSE)
    /\ running' = tty
    /\ spin' = IF tty THEN "alive" ELSE "none"
    /\ turns' = turns + 1
    /\ outcome' = "none"
    /\ response' = None
    /\ pc' = "chat"
    /\ UNCHANGED <<prog, tty, current_tokens, maxTokens, chatVars, localVars>>

MainChatReturns ==
    /\ prog = "main" /\ pc = "chat"
    /\ \E r \in ReplyTexts : response' = Some(r)
    /\ outcome' = "replied"
    /\ pc' = "got"
    /\ UNCHANGED <<prog, tty, history, events, running, spin, current_tokens, maxTokens,
                   turns, pre, user_input, chatVars, localVars>>

MainChatFailsReturnsText ==
    /\ prog = "main" /\ pc = "chat"
    /\ response' = Some("error")
    /\ outcome' = "failed"
    /\ pc' = "got"
    /\ UNCHANGED <<prog, tty, history, events, running, spin, current_tokens, maxTokens,
                   turns, pre, user_input, chatVars, localVars>>

(* ollama.chat raises: both handlers of lines 180-183 fall through to return None *)
MainChatFails ==
    /\ prog = "main" /\ pc = "chat"
    /\ response' = None
    /\ outcome' = "failed"
    /\ pc' = "got"
    /\ UNCHANGED <<prog, tty, history, events, running, spin, current_tokens, maxTokens,
                   turns, pre, user_input, chatVars, localVars>>

Truthy(resp) == resp # None /\ resp[1] # ""

MainHandle ==
    /\ prog = "main" /\ pc = "got"
    /\ IF Truthy(response)
       THEN /\ history' = Append(history, Msg("assistant", response[1]))
            /\ pc' = "trim_enter"
       ELSE /\ pc' = "exit"
            /\ history' = history
    /\ UNCHANGED <<prog, tty, events, running, spin, turns, pre,
                   user_input, outcome, chatVars, localVars, trimVars>>

(* _trim_history, line 198: the initial estimate *)
TrimEnter ==
    /\ prog = "main" /\ pc = "trim_enter"
    /\ current_tokens' = SumWords(history)
    /\ pc' = "trim"
    /\ UNCHANGED <<prog, tty, history, events, running, spin, response, maxTokens, turns,
                   pre, user_input, outcome, chatVars, localVars>>

TrimGuard == current_tokens > maxTokens /\ Len(history) > 2

(* the loop of _trim_history with the running count reduced by the length  *)
(* of the message that stays at index 0 instead of the one removed         *)
TrimStepCountsHead ==
    /\ prog = "main" /\ pc = "trim"
    /\ IF TrimGuard
       THEN /\ history' = Pop1(history)
            /\ current_tokens' = current_tokens - Words(history[1].content)
            /\ pc' = pc
       ELSE /\ pc' = "exit"
            /\ UNCHANGED <<history, current_tokens>>
    /\ UNCHANGED <<prog, tty, events, running, spin, response, maxTokens, turns, pre,
                   user_input, outcome, chatVars, localVars>>

TrimStep ==
    /\ prog = "main" /\ pc = "trim"
    /\ IF TrimGuard
       THEN /\ history' = Pop1(history)
            /\ current_tokens' = current_tokens - Words(history[2].content)
            /\ pc' = pc
       ELSE /\ pc' = "exit"
            /\ UNCHANGED <<history, current_tokens>>
    /\ UNCHANGED <<prog, tty, events, running, spin, response, maxTokens, turns, pre,
                   user_input, outcome, chatVars, localVars>>

MainExit ==
    /\ prog = "main" /\ pc = "exit"
    /\ running' = FALSE
    /\ pc' = "join"
    /\ UNCHANGED <<prog, tty, history, events, spin, turns, pre, user_input, outcome,
                   chatVars, localVars, trimVars>>

MainJoin ==
    /\ prog = "main" /\ pc = "join"
    /\ spin # "alive"
    /\ pc' = "done"
    /\ UNCHANGED <<prog, tty, history, events, running, spin, turns, pre, user_input,
                   outcome, chatVars, localVars, trimVars>>

(* KeyboardInterrupt, delivered while the main thread is blocked in ollama.chat: *)
(* it leaves the with block (__exit__) and reaches the handler of line 167      *)
MainInterrupt ==
    /\ prog = "main" /\ pc = "chat"
    /\ running' = FALSE
    /\ pc' = "ki_join"
    /\ UNCHANGED <<prog, tty, history, events, spin, turns, pre, user_input, outcome,
                   chatVars, localVars, trimVars>>

MainInterruptHandler ==
    /\ prog = "main" /\ pc = "ki_join"
    /\ spin # "alive"
    /\ events' = SetCancel(events)
    /\ outcome' = "interrupted"
    /\ pc' = "done"
    /\ UNCHANGED <<prog, tty, history, running, spin, turns, pre, user_input,
                   chatVars, localVars, trimVars>>

MainReturn ==
    /\ prog = "main" /\ pc = "done"
    /\ pc' = "idle"
    /\ response' = None
    /\ current_tokens' = 0
    /\ pre' = <<>>
    /\ user_input' = ""
    /\ UNCHANGED <<prog, tty, history, events, running, spin, turns, maxTokens,
                   outcome, chatVars, localVars>>

MainClear ==
    /\ prog = "main" /\ pc = "idle"
    /\ history' = InitHistory(FALSE)
    /\ UNCHANGED <<prog, tty, pc, events, running, spin, turns, pre, user_input,
                   outcome, chatVars, localVars, trimVars>>

MainSwitch ==
    /\ prog = "main" /\ pc = "idle"
    /\ LET current_mode == history[1].content = SYSTEM_CYBER
       IN  history' = InitHistory(~current_mode)
    /\ UNCHANGED <<prog, tty, pc, events, running, spin, turns, pre, user_input,
                   outcome, chatVars, localVars, trimVars>>

MainQuit ==
    /\ prog = "main" /\ pc = "idle"
    /\ pc' = "exited"
    /\ UNCHANGED <<prog, tty, history, events, running, spin, turns, pre, user_input,
                   outcome, chatVars, localVars, trimVars>>

MainNext ==
    \/ MainSubmit \/ MainChatReturns \/ MainChatFails \/ MainHandle \/ TrimEnter \/ TrimStep
    \/ MainExit \/ MainJoin \/ MainInterrupt \/ MainInterruptHandler \/ MainReturn
    \/ MainClear \/ MainSwitch \/ MainQuit

-----------------------------------------------------------------------------
(* src/workingModel/mainBotPrototypeOld.py *)

OldUserTexts  == {"hi"}
OldReplyTexts == {"", "ok"}

Cur == Len(gen)

NewResult == [response |-> None, error |-> None]

RECURSIVE OldTrimHistory(_)
OldTrimHistory(h) ==
    IF Len(h) > MAX_HISTORY * 2 + 1 THEN OldTrimHistory(Pop1(Pop1(h))) ELSE h

(* a turn started on the event of the turn before it instead of a new one  *)
OldSubmitReusesEvent ==
    /\ prog = "old" /\ pc = "idle" /\ turns < MaxTurns
    /\ \E u \in OldUserTexts :
        /\ history' = Append(history, Msg("user", u))
        /\ user_input' = u
    /\ pre' = history
    /\ result' = Append(result, NewResult)
    /\ events' = Append(events, CurCancel)
    /\ gen' = Append(gen, [st |-> "chat", reply |-> None])
    /\ running' = TRUE
    /\ spin' = "alive"
    /\ turns' = turns + 1
    /\ outcome' = "none"
    /\ pc' = "poll"
    /\ UNCHANGED <<prog, tty, localVars, trimVars>>

OldSubmit ==
    /\ prog = "old" /\ pc = "idle" /\ turns < MaxTurns
    /\ \E u \in OldUserTexts :
        /\ history' = Append(history, Msg("user", u))
        /\ user_input' = u
    /\ pre' = history
    /\ result' = Append(result, NewResult)
    /\ events' = Append(events, FALSE)
    /\ gen' = Append(gen, [st |-> "chat", reply |-> None])
    /\ running' = TRUE
    /\ spin' = "alive"
    /\ turns' = turns + 1
    /\ outcome' = "none"
    /\ pc' = "poll"
    /\ UNCHANGED <<prog, tty, localVars, trimVars>>

(* the closure _generate of turn t, run by its generation thread *)
GenChatReturns(t) ==
    /\ gen[t].st = "chat"
    /\ \E r \in OldReplyTexts : gen' = [gen EXCEPT ![t] = [st |-> "check", reply |-> Some(r)]]
    /\ UNCHANGED result

GenStore(t) ==
    /\ gen[t].st = "check"
    /\ result' = IF ~events[t]
                 THEN [result EXCEPT ![t].response = gen[t].reply]
                 ELSE result
    /\ gen' = [gen EXCEPT ![t] = [st |-> "dead", reply |-> None]]

GenRaises(t) ==
    /\ gen[t].st = "chat"
    /\ result' = [result EXCEPT ![t].error = Some("error")]
    /\ gen' = [gen EXCEPT ![t].st = "dead"]

Generate ==
    /\ prog = "old"
    /\ \E t \in 1..Len(gen) : GenChatReturns(t) \/ GenStore(t) \/ GenRaises(t)
    /\ UNCHANGED <<prog, tty, history, pc, events, running, spin, turns, pre,
                   user_input, outcome, localVars, trimVars>>

OldPoll ==
    /\ prog = "old" /\ pc = "poll"
    /\ pc' = IF gen[Cur].st # "dead" THEN "joined" ELSE "exit"
    /\ UNCHANGED <<prog, tty, history, events, running, spin, turns, pre, user_input,
                   outcome, chatVars, localVars, trimVars>>

OldPollCancel ==
    /\ prog = "old" /\ pc = "joined"
    /\ pc' = IF CurCancel THEN "exit" ELSE "poll"
    /\ UNCHANGED <<prog, tty, history, events, running, spin, turns, pre, user_input,
                   outcome, chatVars, localVars, trimVars>>

OldExit ==
    /\ prog = "old" /\ pc = "exit"
    /\ running' = FALSE
    /\ pc' = "join"
    /\ UNCHANGED <<prog, tty, history, events, spin, turns, pre, user_input, outcome,
                   chatVars, localVars, trimVars>>

OldJoin ==
    /\ prog = "old" /\ pc = "join"
    /\ spin # "alive"
    /\ pc' = "final"
    /\ UNCHANGED <<prog, tty, history, events, running, spin, turns, pre, user_input,
                   outcome, chatVars, localVars, trimVars>>

OldFinalReplyFirst ==
    /\ prog = "old" /\ pc = "final"
    /\ IF result[Cur].response # None
       THEN /\ history' = OldTrimHistory(
                            Append(history, Msg("assistant", result[Cur].response[1])))
            /\ outcome' = "completed"
            /\ pc' = "done"
       ELSE IF CurCancel
       THEN /\ outcome' = "cancelled"
            /\ pc' = "done"
            /\ history' = history
       ELSE /\ outcome' = IF result[Cur].error # None THEN "failed" ELSE "none"
            /\ pc' = IF result[Cur].error # None THEN "stopped" ELSE "done"
            /\ history' = history
    /\ UNCHANGED <<prog, tty, events, running, spin, turns, pre, user_input,
                   chatVars, localVars, trimVars>>

(* lines 115-122 of _generate_response, then lines 158-161 of run *)
OldFinal ==
    /\ prog = "old" /\ pc = "final"
    /\ IF CurCancel
       THEN /\ outcome' = "cancelled"
            /\ pc' = "done"
            /\ history' = history
       ELSE IF result[Cur].error # None
       THEN /\ outcome' = "failed"
            /\ pc' = "stopped"
            /\ history' = history
       ELSE /\ pc' = "done"
            /\ IF result[Cur].response # None
               THEN /\ history' = OldTrimHistory(
                                    Append(history, Msg("assistant", result[Cur].response[1])))
                    /\ outcome' = "completed"
               ELSE /\ history' = history
                    /\ outcome' = "none"
    /\ UNCHANGED <<prog, tty, events, running, spin, turns, pre, user_input,
                   chatVars, localVars, trimVars>>

OldReturn ==
    /\ prog = "old" /\ pc = "done"
    /\ pc' = "idle"
    /\ pre' = <<>>
    /\ user_input' = ""
    /\ UNCHANGED <<prog, tty, history, events, running, spin, turns,
                   outcome, chatVars, localVars, trimVars>>

OldInterrupt ==
    /\ prog = "old" /\ pc \in {"poll", "joined"}
    /\ running' = FALSE
    /\ pc' = "ki_join"
    /\ UNCHANGED <<prog, tty, history, events, spin, turns, pre, user_input, outcome,
                   chatVars, localVars, trimVars>>

OldInterruptHandler ==
    /\ prog = "old" /\ pc = "ki_join"
    /\ spin # "alive"
    /\ events' = SetCancel(events)
    /\ pc' = "ki_genjoin"
    /\ UNCHANGED <<prog, tty, history, running, spin, turns, pre, user_input, outcome,
                   chatVars, localVars, trimVars>>

OldInterruptRaise ==
    /\ prog = "old" /\ pc = "ki_genjoin"
    /\ gen[Cur].st = "dead"
    /\ outcome' = "interrupted"
    /\ pc' = "stopped"
    /\ UNCHANGED <<prog, tty, history, events, running, spin, turns, pre, user_input,
                   chatVars, localVars, trimVars>>

OldQuit ==
    /\ prog = "old" /\ pc = "idle"
    /\ pc' = "stopped"
    /\ UNCHANGED <<prog, tty, history, events, running, spin, turns, pre, user_input,
                   outcome, chatVars, localVars, trimVars>>

OldNext ==
    \/ OldSubmit \/ Generate \/ OldPoll \/ OldPollCancel \/ OldExit \/ OldJoin
    \/ OldFinal \/ OldReturn \/ OldInterrupt \/ OldInterruptHandler
    \/ OldInterruptRaise \/ OldQuit

(* histories the old ChatBot can hold when idle: the system message and k *)
(* completed exchanges                                                     *)
RECURSIVE Exchanges(_)
Exchanges(k) ==
    IF k = 0 THEN <<>> ELSE <<Msg("user", "hi"), Msg("assistant", "ok")>> \o Exchanges(k - 1)

OldStartPairs == {0, MAX_HISTORY}

(* the histories of k completed exchanges, and the history left by a first *)
(* turn cancelled with 'q' followed by MAX_HISTORY - 1 completed exchanges *)
OldStartHistories ==
    { <<Msg("system", SYSTEM_OLD)>> \o Exchanges(k) : k \in OldStartPairs }
    \cup { <<Msg("system", SYSTEM_OLD), Msg("user", "hi")>> \o Exchanges(MAX_HISTORY - 1) }

InitOld ==
    /\ prog = "old"
    /\ tty = TRUE
    /\ history \in OldStartHistories
    /\ maxTokens = MAX_CONTEXT_TOKENS

-----------------------------------------------------------------------------
(* src/locali.py *)

(* Conversation (conversation.py) *)
AddMessage(conv, role, content) == Append(conv, Msg(role, content))

(* The lines a response body can hold, as they are on the wire *)
Fragments == {"Hi", " there"}

RespLine(t) == [kind |-> "object", response |-> Some(t), done |-> FALSE]
DoneLine    == [kind |-> "object", response |-> None, done |-> TRUE]
TextLine    == [kind |-> "text", response |-> None, done |-> FALSE]
BytesLine   == [kind |-> "bytes", response |-> None, done |-> FALSE]
NumberLine  == [kind |-> "number", response |-> None, done |-> FALSE]
ListLine    == [kind |-> "list", response |-> None, done |-> FALSE]
EmptyLine   == [kind |-> "empty", response |-> None, done |-> FALSE]

Lines == {RespLine(t) : t \in Fragments}
            \cup {DoneLine, TextLine, BytesLine, NumberLine, ListLine, EmptyLine}

SeqsUpTo(S, n) == UNION {[1..k -> S] : k \in 0..n}

Streams == SeqsUpTo(Lines, MaxLines)

(* json.loads(line): the value, or the exception it raises *)
JsonLoads(line) ==
    CASE line.kind = "object" -> [exc |-> "", value |-> line]
      [] line.kind = "number" -> [exc |-> "", value |-> line]
      [] line.kind = "list"   -> [exc |-> "", value |-> line]
      [] line.kind = "bytes"  -> [exc |-> "UnicodeDecodeError", value |-> line]
      [] OTHER                -> [exc |-> "JSONDecodeError", value |-> line]

(* One iteration of the loop over response.content (lines 38-45):         *)
(* "yield" a fragment, "skip" the line, or leave the loop by an exception *)
(* that only the outer handlers catch ("abort").                          *)
LineStep(line) ==
    IF line.kind = "empty" THEN [act |-> "skip", text |-> ""]
    ELSE LET j == JsonLoads(line) IN
         IF j.exc = "JSONDecodeError" THEN [act |-> "skip", text |-> ""]
         ELSE IF j.exc # "" THEN [act |-> "abort", text |-> j.exc]
         ELSE IF j.value.kind = "number" THEN [act |-> "abort", text |-> "TypeError"]
         ELSE IF j.value.kind = "object" /\ j.value.response # None
              THEN [act |-> "yield", text |-> j.value.response[1]]
              ELSE [act |-> "skip", text |-> ""]

(* What the loop delivers for a whole body s, and how it ends *)
RECURSIVE Drain(_, _)
Drain(s, acc) ==
    IF s = <<>> THEN [delivered |-> acc, end |-> "completed"]
    ELSE LET step == LineStep(Head(s)) IN
         IF step.act = "abort" THEN [delivered |-> acc, end |-> step.text]
         ELSE Drain(Tail(s), IF step.act = "yield" THEN Append(acc, step.text) ELSE acc)

LocalEnter ==
    /\ prog = "locali" /\ pc = "new"
    /\ session' = TRUE
    /\ pc' = "idle"
    /\ UNCHANGED <<prog, tty, history, events, running, spin, turns, pre, user_input,
                   outcome, chatVars, trimVars, conversation, http_response, stream,
                   pos, delivered, raised>>

Prompts == {"hello"}

(* generate_text up to the request; app.py (lines 39-43) makes one call per *)
(* LocalI instance                                                        *)
LocalGenerate ==
    /\ prog = "locali" /\ pc \in {"new", "idle"} /\ turns = 0
    /\ \E p \in Prompts :
        /\ conversation' = AddMessage(conversation, "user", p)
        /\ user_input' = p
    /\ pre' = conversation
    /\ turns' = turns + 1
    /\ IF ~session
       THEN /\ raised' = TRUE
            /\ outcome' = "RuntimeError"
            /\ pc' = "ended"
       ELSE /\ raised' = FALSE
            /\ outcome' = "none"
            /\ pc' = "post"
    /\ UNCHANGED <<prog, tty, history, events, running, spin, chatVars, trimVars,
                   session, http_response, stream, pos, delivered>>

LocalPostFails ==
    /\ prog = "locali" /\ pc = "post"
    /\ \E e \in {"ConnectionError", "HTTPStatusError"} :
        /\ outcome' = e
        /\ http_response' = IF e = "HTTPStatusError" THEN "released" ELSE http_response
    /\ pc' = "ended"
    /\ UNCHANGED <<prog, tty, history, events, running, spin, turns, pre, user_input,
                   chatVars, trimVars, conversation, session, stream, pos, delivered,
                   raised>>

LocalPostOk ==
    /\ prog = "locali" /\ pc = "post"
    /\ \E s \in Streams : stream' = s
    /\ http_response' = "open"
    /\ pc' = "read"
    /\ UNCHANGED <<prog, tty, history, events, running, spin, turns, pre, user_input,
                   outcome, chatVars, trimVars, conversation, session, pos, delivered,
                   raised>>

LocalReadLine ==
    /\ prog = "locali" /\ pc = "read" /\ pos < Len(stream)
    /\ pos' = pos + 1
    /\ LET step == LineStep(stream[pos + 1]) IN
        /\ conversation' = IF step.act = "yield"
                           THEN AddMessage(conversation, "assistant", step.text)
                           ELSE conversation
        /\ delivered' = IF step.act = "yield" THEN Append(delivered, step.text)
                        ELSE delivered
        /\ pc' = IF step.act = "abort" THEN "ended" ELSE "read"
        /\ outcome' = IF step.act = "abort" THEN step.text ELSE outcome
        /\ http_response' = IF step.act = "abort" THEN "released" ELSE http_response
    /\ UNCHANGED <<prog, tty, history, events, running, spin, turns, pre, user_input,
                   chatVars, trimVars, session, stream, raised>>

LocalEndOfStream ==
    /\ prog = "locali" /\ pc = "read" /\ pos = Len(stream)
    /\ outcome' = "completed"
    /\ http_response' = "released"
    /\ pc' = "ended"
    /\ UNCHANGED <<prog, tty, history, events, running, spin, turns, pre, user_input,
                   chatVars, trimVars, conversation, session, stream, pos, delivered,
                   raised>>

(* a network error while the body is read, the response left open: what   *)
(* the code would do without the 'async with' of line 35                   *)
LocalNetErrorLeaks ==
    /\ prog = "locali" /\ pc = "read"
    /\ outcome' = "NetworkError"
    /\ pc' = "ended"
    /\ UNCHANGED <<prog, tty, history, events, running, spin, turns, pre, user_input,
                   chatVars, trimVars, localVars>>

(* a network error while the body is read that reaches the caller of the   *)
(* generator: the code without the handler of lines 46-47                  *)
LocalNetErrorPropagates ==
    /\ prog = "locali" /\ pc = "read"
    /\ outcome' = "NetworkError"
    /\ http_response' = "released"
    /\ raised' = TRUE
    /\ pc' = "ended"
    /\ UNCHANGED <<prog, tty, history, events, running, spin, turns, pre, user_input,
                   chatVars, trimVars, conversation, session, stream, pos, delivered>>

LocalNetError ==
    /\ prog = "locali" /\ pc = "read"
    /\ outcome' = "NetworkError"
    /\ http_response' = "released"
    /\ pc' = "ended"
    /\ UNCHANGED <<prog, tty, history, events, running, spin, turns, pre, user_input,
                   chatVars, trimVars, conversation, session, stream, pos, delivered,
                   raised>>

LocalExit ==
    /\ prog = "locali" /\ pc = "ended"
    /\ session' = FALSE
    /\ pc' = "closed"
    /\ UNCHANGED <<prog, tty, history, events, running, spin, turns, pre, user_input,
                   outcome, chatVars, trimVars, conversation, http_response, stream,
                   pos, delivered, raised>>

LocalNext ==
    \/ LocalEnter \/ LocalGenerate \/ LocalPostFails \/ LocalPostOk \/ LocalReadLine
    \/ LocalEndOfStream \/ LocalNetError \/ LocalExit

LocalStartConversations ==
    { <<Msg("system", SYSTEM_GENERAL)>>,
      <<Msg("system", SYSTEM_GENERAL), Msg("user", "hi"), Msg("assistant", "ok")>> }

InitLocal ==
    /\ prog = "locali"
    /\ tty = TRUE
    /\ history = <<>>
    /\ maxTokens = MAX_CONTEXT_TOKENS
    /\ conversation \in LocalStartConversations
    /\ pc = "new"

-----------------------------------------------------------------------------
InitMain ==
    /\ prog = "main"
    /\ tty \in BOOLEAN
    /\ history = InitHistory(FALSE)
    /\ maxTokens = MAX_CONTEXT_TOKENS

Init ==
    /\ \/ InitMain /\ pc = "idle" /\ conversation = <<>>
       \/ InitOld /\ pc = "idle" /\ conversation = <<>>
       \/ InitLocal
    /\ events = <<>>
    /\ running = FALSE
    /\ spin = "none"
    /\ response = None
    /\ current_tokens = 0
    /\ turns = 0
    /\ pre = <<>>
    /\ user_input = ""
    /\ outcome = "none"
    /\ gen = <<>>
    /\ result = <<>>
    /\ session = FALSE
    /\ http_response = "none"
    /\ stream = <<>>
    /\ pos = 0
    /\ delivered = <<>>
    /\ raised = FALSE

Next == Spin \/ MainNext \/ OldNext \/ LocalNext

Spec == Init /\ [][Next]_vars

-----------------------------------------------------------------------------
(* ChatBot._trim_history of src/main.py on its own: every history made of  *)
(* the system message and whole exchanges, every ceiling of Ceilings.      *)

MaxPairs == 2

Ceilings == {0, 7000, MAX_CONTEXT_TOKENS}

TruthyReplies == {r \in ReplyTexts : r # ""}

PairHistory(sys, k, u, a) ==
    [i \in 1..(2 * k + 1) |->
        IF i = 1 THEN Msg("system", sys)
        ELSE IF i % 2 = 0 THEN Msg("user", u[i \div 2])
        ELSE Msg("assistant", a[(i - 1) \div 2])]

TrimHistories ==
    UNION { { PairHistory(sys, k, u, a) :
                sys \in {SYSTEM_GENERAL, SYSTEM_CYBER},
                u \in [1..k -> UserTexts],
                a \in [1..k -> TruthyReplies] } : k \in 0..MaxPairs }

InitTrim ==
    /\ prog = "main"
    /\ tty = TRUE
    /\ history \in TrimHistories
    /\ maxTokens \in Ceilings
    /\ pc = "trim_enter"
    /\ pre = history
    /\ conversation = <<>>
    /\ events = <<>>
    /\ running = FALSE
    /\ spin = "none"
    /\ response = None
    /\ current_tokens = 0
    /\ turns = 0
    /\ user_input = ""
    /\ outcome = "none"
    /\ gen = <<>>
    /\ result = <<>>
    /\ session = FALSE
    /\ http_response = "none"
    /\ stream = <<>>
    /\ pos = 0
    /\ delivered = <<>>
    /\ raised = FALSE

TrimNext == TrimEnter \/ TrimStep

SpecTrim == InitTrim /\ [][TrimNext]_vars

-----------------------------------------------------------------------------
(* Properties *)

InTurn == pre # <<>>

UserMsg == Msg("user", user_input)

SystemCount(h) == Cardinality({i \in 1..Len(h) : h[i].role = "system"})

(* C1: in src/main.py a turn in which the cancel event was set before the  *)
(* turn ended appends no assistant message: the history at the end of the  *)
(* turn is the history at its start plus the one user message.             *)
C1_CancelledTurnAppendsNothing ==
    (prog = "main" /\ pc = "done" /\ CurCancel) => history = Append(pre, UserMsg)

(* C2: in mainBotPrototypeOld.py a turn hands a reply to run() only if the *)
(* cancel event was never set in that turn; a turn that reaches its end    *)
(* with the event set is reported cancelled (or leaves by the              *)
(* KeyboardInterrupt it re-raises), and the history is then the history at *)
(* the start of the turn plus the user message.                            *)
C2_ReplyOnlyIfNeverCancelled ==
    prog = "old" =>
      /\ (pc = "done" /\ outcome = "completed") => ~CurCancel
      /\ (pc = "done" /\ CurCancel) => outcome = "cancelled"
      /\ (pc \in {"done", "stopped"} /\ InTurn /\ CurCancel) =>
            /\ outcome \in {"cancelled", "interrupted"}
            /\ history = Append(pre, UserMsg)

(* a turn ended cancelled although its generation thread had stored a reply *)
C2_Witness ==
    /\ prog = "old" /\ pc = "done" /\ CurCancel
    /\ result[Cur].response # None
    /\ history = Append(pre, UserMsg)

(* C3: in both ChatBot classes the history is never empty, its first       *)
(* element has role system, and it holds exactly one system message.       *)
C3_OneSystemMessageFirst ==
    prog \in {"main", "old"} =>
      /\ Len(history) >= 1
      /\ history[1].role = "system"
      /\ SystemCount(history) = 1

(* a trim of main.py has just evicted messages of a turn's history *)
C3_Witness ==
    /\ prog = "main" /\ pc = "exit" /\ Truthy(response)
    /\ Len(history) < Len(pre) + 2
    /\ history[1].role = "system"

(* C4: started on the system message followed by whole (user, assistant)   *)
(* pairs, _trim_history of main.py stops on a history of odd length.       *)
C4_TrimLeavesOddLength ==
    (prog = "main" /\ pc = "exit") => Len(history) % 2 = 1

(* C5: _trim_history of main.py never evicts the user message nor the      *)
(* assistant reply of the turn that has just completed.                    *)
C5_LastExchangeKept ==
    (prog = "main" /\ pc = "exit" /\ Truthy(response)) =>
      /\ Len(history) >= 3
      /\ history[Len(history) - 1] = UserMsg
      /\ history[Len(history)] = Msg("assistant", response[1])

(* the response values of the lines of s that are JSON objects with a *)
(* response field, in the order of the lines                          *)
RECURSIVE ResponsesOf(_)
ResponsesOf(s) ==
    IF s = <<>> THEN <<>>
    ELSE (IF Head(s).kind = "object" /\ Head(s).response # None
          THEN <<Head(s).response[1]>> ELSE <<>>) \o ResponsesOf(Tail(s))

RECURSIVE Concat(_)
Concat(fs) == IF fs = <<>> THEN "" ELSE Head(fs) \o Concat(Tail(fs))

IsResponseLine(l) == l.kind = "object" /\ l.response # None
IsMalformedLine(l) == l.kind \in {"text", "bytes", "empty"}

BodyConsumed == pc \in {"ended", "closed"} /\ outcome \in {"completed", "UnicodeDecodeError", "TypeError"}

(* C6: for a body made of K lines that are JSON objects with a response    *)
(* field and M lines that are not valid JSON, in any order, the caller of  *)
(* generate_text receives exactly the K response values, in wire order.    *)
C6_FragmentsAreTheValidLines ==
    ( /\ prog = "locali" /\ BodyConsumed
      /\ \A i \in 1..Len(stream) : IsResponseLine(stream[i]) \/ IsMalformedLine(stream[i]) )
    => delivered = ResponsesOf(stream)

(* C7: once a line with done true has been read, no fragment of a later    *)
(* line is delivered to the caller or recorded in the conversation.        *)
C7_NothingAfterDone ==
    prog = "locali" =>
      \A i \in 1..pos : stream[i].done =>
        /\ delivered = ResponsesOf(SubSeq(stream, 1, i))
        /\ Len(conversation) = Len(pre) + 1 + Len(ResponsesOf(SubSeq(stream, 1, i)))

(* C8: a turn of generate_text that completes normally with N >= 1         *)
(* fragments adds exactly two messages to the conversation: the user       *)
(* prompt and one assistant message holding the N fragments concatenated.  *)
C8_OneAssistantMessagePerTurn ==
    (prog = "locali" /\ pc = "ended" /\ outcome = "completed" /\ Len(delivered) >= 1)
    => conversation = pre \o <<UserMsg, Msg("assistant", Concat(delivered))>>

(* what the caller of generate_text observes of a turn: the fragments and  *)
(* whether an exception reached it                                         *)
Observation == <<delivered, raised>>

CompletedObservations ==
    { <<Drain(s, <<>>).delivered, FALSE>> :
        s \in {t \in Streams : Drain(t, <<>>).end = "completed"} }

(* C9: a turn of generate_text that ended in a session-level failure       *)
(* (endpoint unreachable, non-success status) is never reported to the     *)
(* caller the way a normally completed turn is.                            *)
C9_FailureToldApart ==
    (prog = "locali" /\ pc = "ended" /\ outcome \in {"ConnectionError", "HTTPStatusError"})
    => Observation \notin CompletedObservations

(* C10: in all three turn implementations, when the generation call fails  *)
(* before any text was produced, the history at the end of the turn is the *)
(* history at its start plus exactly the user message.                     *)
C10_FailedTurnKeepsUserOnly ==
    /\ (prog = "main" /\ pc = "done" /\ outcome = "failed")
          => history = Append(pre, UserMsg)
    /\ (prog = "old" /\ pc \in {"done", "stopped"} /\ InTurn /\ result[Cur].error # None)
          => history = Append(pre, UserMsg)
    /\ (prog = "locali" /\ pc = "ended" /\ outcome \notin {"completed", "none"}
            /\ delivered = <<>>)
          => conversation = Append(pre, UserMsg)

(* a turn of main.py whose generation call failed has ended *)
C10_Witness ==
    /\ prog = "main" /\ pc = "done" /\ outcome = "failed"
    /\ response = None
    /\ history = Append(pre, UserMsg)

(* a turn that ended with an assistant reply appended to the history *)
CompletedWithReply ==
    \/ prog = "main" /\ pc = "done" /\ outcome = "replied" /\ Truthy(response)
    \/ prog = "old" /\ pc = "done" /\ outcome = "completed"

(* C11: in both ChatBot loops the history has odd length whenever a turn   *)
(* has just completed with an assistant reply, and whenever the loop is    *)
(* idle after a turn: an even length occurs only while a turn is in        *)
(* progress.                                                               *)
C11_OddLengthWhenIdle ==
    /\ CompletedWithReply => Len(history) % 2 = 1
    /\ (prog \in {"main", "old"} /\ pc = "idle" /\ turns > 0) => Len(history) % 2 = 1

-----------------------------------------------------------------------------
(* The loop of mainBotPrototypeOld.py with the scheduling assumed of it:   *)
(* the main thread takes its next step whenever it has one, and a spinner  *)
(* thread whose loop condition is false ends. Nothing is assumed of the    *)
(* generation thread (ollama.chat may take for ever), of the keyboard or   *)
(* of the user.                                                            *)
OldMainThread ==
    \/ OldPoll \/ OldPollCancel \/ OldExit \/ OldJoin \/ OldFinal \/ OldReturn
    \/ OldInterruptHandler \/ OldInterruptRaise

SpinnerEnds == Spin /\ spin' = "done"

OldLoopNext == Spin \/ OldNext

InitOldLoop == Init /\ prog = "old"

SpecOldFair ==
    /\ InitOldLoop
    /\ [][OldLoopNext]_vars
    /\ WF_vars(OldMainThread)
    /\ WF_vars(SpinnerEnds)

(* the cancel event of the current turn is set and its generation call has *)
(* not finished                                                            *)
CancelledInFlight == prog = "old" /\ InTurn /\ CurCancel /\ gen[Cur].st # "dead"

TurnCancelled == prog = "old" /\ pc = "done" /\ outcome = "cancelled"

(* C12: once the cancel event is set while the generation     *)
(* call is in flight, whether by the 'q' watcher or by the                 *)
(* KeyboardInterrupt handler, the turn goes on to its end without waiting  *)
(* for the generation call: the main thread or the spinner always has a    *)
(* step to take that does not need the generation thread.                  *)
C12_CancelNeverWaitsForGeneration ==
    CancelledInFlight => ENABLED (OldMainThread \/ SpinnerEnds)

(* the 'q' path taken alone does what C12 says: once the watcher has set   *)
(* the event while the polling loop runs, the turn ends as cancelled       *)
(* whatever the generation thread does, unless a KeyboardInterrupt arrives *)
(* first.                                                                  *)
QCancelEndsTurn ==
    (CancelledInFlight /\ pc \in {"poll", "joined"}) ~> (TurnCancelled \/ pc = "ki_join")

(* a turn ended as cancelled while its generation call is still in flight *)
QCancelledInFlight ==
    /\ TurnCancelled
    /\ CurCancel
    /\ gen[Cur].st = "chat"

(* C13: in mainBotPrototypeOld.py a turn that ended Completed, Cancelled   *)
(* or Failed returns to Idle: after a turn whose generation call raised,   *)
(* the loop is still running and goes on to accept a further prompt, as    *)
(* it does after a completed or cancelled turn.                            *)
C13_EveryTurnReturnsToIdle ==
    (prog = "old" /\ InTurn /\ outcome \in {"completed", "cancelled", "failed"})
        => (pc = "done" /\ ENABLED OldReturn)

(* C14: in locali.py, once a turn of generate_text has reached its end     *)
(* (end of stream, non-success status, network error while streaming,      *)
(* exception while decoding) the HTTP response it opened is released, and  *)
(* once the LocalI context is left the session is closed.                  *)
C14_ResponseReleasedSessionClosed ==
    /\ (prog = "locali" /\ pc \in {"ended", "closed"}) => http_response # "open"
    /\ (prog = "locali" /\ pc = "closed") => ~session

(* the context was left after a turn that ended by an exception raised     *)
(* while response lines were being decoded                                 *)
C14_Witness ==
    /\ prog = "locali" /\ pc = "closed"
    /\ outcome \in {"UnicodeDecodeError", "TypeError"}
    /\ http_response = "released"
    /\ ~session

(* the generation threads that have not ended *)
InFlight == {t \in 1..Len(gen) : gen[t].st # "dead"}

(* C15: in mainBotPrototypeOld.py a generation call never outlives its     *)
(* turn: once _generate_response has returned or raised no generation      *)
(* thread is running, and at most one is running at any time.              *)
C15_GenerationEndsWithItsTurn ==
    prog = "old" =>
        /\ pc \in {"done", "idle", "stopped"} => InFlight = {}
        /\ Cardinality(InFlight) <= 1

(* C16: in mainBotPrototypeOld.py the message list handed to the           *)
(* generation call is a stable snapshot: while a generation thread that    *)
(* was started with messages=self.history has not ended, no message is     *)
(* appended to or removed from that list.                                  *)
C16_MessagesStableWhileGenerating ==
    [][(prog = "old" /\ InFlight # {}) => history' = history]_vars

-----------------------------------------------------------------------------
(* _trim_history of main.py run to its end: the thread that called it goes *)
(* on taking steps                                                         *)
SpecTrimFair == SpecTrim /\ WF_vars(TrimNext)

(* h is p with messages removed from index 1 only *)
RemovedAtIndex1(h, p) ==
    \E k \in 0..(Len(p) - 1) : h = <<Head(p)>> \o SubSeq(p, k + 2, Len(p))

InTrim == prog = "main" /\ pc \in {"trim", "exit"}

TrimStepwise ==
    /\ InTrim => current_tokens = SumWords(history)
    /\ InTrim => RemovedAtIndex1(history, pre)
    /\ (InTrim /\ SumWords(pre) <= maxTokens) => history = pre
    /\ (prog = "main" /\ pc = "exit")
          => (SumWords(history) <= maxTokens \/ Len(history) <= 2)

(* C17: _trim_history of main.py, entered on the history pre, always       *)
(* returns; it removes messages at index 1 only and none when the estimate *)
(* is at or below the ceiling; on return the estimate is at or below the   *)
(* ceiling or at most two messages are left; after every removal the       *)
(* running count is the word count of the history recomputed afresh.       *)
C17_TrimTerminatesAndCounts == []TrimStepwise /\ <>(pc = "exit")

(* the loop has returned under the ceiling of main.py after removing       *)
(* messages, with more than two left                                       *)
C17_Witness ==
    /\ prog = "main" /\ pc = "exit"
    /\ maxTokens = MAX_CONTEXT_TOKENS
    /\ SumWords(pre) > maxTokens
    /\ Len(history) < Len(pre) /\ Len(history) > 2
    /\ current_tokens <= maxTokens

(* every assistant message of h directly follows a user message *)
RepliesFollowUsers(h) ==
    \A i \in 1..Len(h) : h[i].role = "assistant" => (i > 1 /\ h[i - 1].role = "user")

(* C18: in mainBotPrototypeOld.py, on every history that completed and     *)
(* cancelled turns can produce, _trim_history removes a user message       *)
(* together with its own reply: after a completed turn (the only caller    *)
(* of the trim) the message at index 1, if any, is a user message and no   *)
(* assistant message is left without the user message it answered.         *)
C18_TrimRemovesWholeExchanges ==
    (prog = "old" /\ pc = "done" /\ outcome = "completed") =>
        /\ Len(history) > 1 => history[2].role = "user"
        /\ RepliesFollowUsers(history)

(* C19: in mainBotPrototypeOld.py, whenever the loop is idle the history   *)
(* holds at most 2 * MAX_HISTORY + 1 messages, after any sequence of       *)
(* completed, cancelled and failed turns.                                  *)
C19_IdleHistoryBounded ==
    (prog = "old" /\ pc = "idle") => Len(history) <= 2 * MAX_HISTORY + 1

IsNonObjectLine(l) == l.kind \in {"number", "list"}

(* C20: a line that is not valid JSON, and equally a line that is valid    *)
(* JSON but not an object (a number, null, a string, a list), is skipped   *)
(* without ending the stream: for a body of response lines, lines of text  *)
(* that is not JSON and non-object JSON lines, read to its end or to the   *)
(* exception that ended it, the fragments delivered are the response       *)
(* values of all its response lines.                                       *)
C20_NonObjectLinesSkipped ==
    ( /\ prog = "locali" /\ BodyConsumed
      /\ \A i \in 1..Len(stream) :
            \/ IsResponseLine(stream[i])
            \/ stream[i].kind = "text"
            \/ IsNonObjectLine(stream[i]) )
    => delivered = ResponsesOf(stream)

(* a turn of generate_text ended by a network error while the body was read *)
NetErrorEnded == prog = "locali" /\ pc \in {"ended", "closed"} /\ outcome = "NetworkError"

(* C21: when a network-level error occurs after the lines 1..pos of the    *)
(* body were read, the caller has received exactly the fragments of those  *)
(* lines, in wire order; no exception reaches the caller; the sequence has *)
(* ended and no later line is read, so no further fragment is delivered.   *)
C21_NetErrorEndsSequenceQuietly ==
    NetErrorEnded =>
        /\ delivered = ResponsesOf(SubSeq(stream, 1, pos))
        /\ ~raised
        /\ ~ENABLED LocalReadLine

(* the error struck after two fragments, with a response line still unread *)
C21_Witness ==
    /\ NetErrorEnded
    /\ Len(delivered) = 2
    /\ pos < Len(stream)
    /\ IsResponseLine(stream[pos + 1])
    /\ ~raised

(* what any step may do to the cancel events *)
CancelEventStep ==
    prog \in {"main", "old"} =>
        /\ turns' # turns => events' = Append(events, FALSE)
        /\ turns' = turns => Len(events') = Len(events)
        /\ \A i \in 1..Len(events) : events[i] => events'[i]
        /\ \A i \in 1..(Len(events) - 1) : events'[i] = events[i]
        /\ CurCancel => SetCancel(events) = events
        /\ (outcome' \in {"cancelled", "interrupted"} /\ outcome' # outcome)
              => events'[Len(events')]

(* C22: in both ChatBot._generate_response implementations the cancel      *)
(* event is one-shot and per turn: a turn starts with a new, unset event;  *)
(* an event that is set is never cleared; setting a set event changes      *)
(* nothing; only the event of the current turn is ever set, so a cancel    *)
(* issued in one turn never makes a later turn count as cancelled, and a   *)
(* turn counts as cancelled only when its own event is set.                *)
C22_CancelEventOneShotPerTurn == [][CancelEventStep]_vars

(* a second turn of the old prototype completed with its own event unset   *)
(* after a first turn that was cancelled                                   *)
C22_Witness ==
    /\ prog = "old" /\ pc = "done" /\ outcome = "completed"
    /\ Len(events) = 2
    /\ events[1] /\ ~events[2]

(* C23: in main.py every turn whose generation call returned a reply       *)
(* without raising, and that was not interrupted, ends with exactly one    *)
(* assistant message holding that reply appended after the user message    *)
(* and _trim_history run on the result (its count is the word count of    *)
(* the history), whatever the reply text is, the empty string included.    *)
C23_EveryReplyAppended ==
    (prog = "main" /\ pc = "exit" /\ outcome = "replied") =>
        /\ response # None
        /\ history[Len(history)] = Msg("assistant", response[1])
        /\ RemovedAtIndex1(history,
                Append(Append(pre, UserMsg), Msg("assistant", response[1])))
        /\ current_tokens = SumWords(history)
====
